---- MODULE Spec2Model ----
(***************************************************************************)
(* A model of pygeos/constructive.py: the vectorized operation layer that  *)
(* normalises parameters and hands them to the element-wise ufuncs.        *)
(*                                                                         *)
(* One behaviour is one call of one public function.  Init draws the       *)
(* function and its arguments; the function's action runs the whole body   *)
(* and records what the caller sees (outcome), the ufunc calls the layer   *)
(* issued (ufuncCalls) and the per-element kernel invocations those calls  *)
(* made (kernelCalls).                                                     *)
(*                                                                         *)
(* Python values are records tagged by k:                                  *)
(*   "int"    v: a Python int inside the C int range                       *)
(*   "bigint" v: d >= 1, the Python int INT_MAX + d (outside that range)   *)
(*   "float"  v: the value in tenths (25 is 2.5)                           *)
(*   "bool"   v: BOOLEAN                                                   *)
(*   "str"    v: the sequence of its characters                            *)
(*   "array"  v: the sequence of its elements (ndarray or list, 1-d)       *)
(*   "array0" v: the one element of a zero-dimensional ndarray             *)
(*   "geom"   v: an opaque geometry handle                                 *)
(*   "intc"   v: a numpy.intc                                              *)
(*   "None", "absent" (a keyword argument the caller left out)             *)
(***************************************************************************)
EXTENDS Integers, Sequences, FiniteSets, TLC

VARIABLES pc, op, args, outcome, ufuncCalls, kernelCalls

vars == <<pc, op, args, outcome, ufuncCalls, kernelCalls>>

(* Longest geometry / radius array drawn as an input. *)
MaxLen == 2

(* numpy.intc is the platform's C int: 32 bits, two's complement. *)
INT_MAX == 2147483647
INT_MIN == -INT_MAX - 1

(***************************************************************************)
(* Python values                                                           *)
(***************************************************************************)
PyInt(n) == [k |-> "int", v |-> n]
PyBig(d) == [k |-> "bigint", v |-> d]
PyFloat(t) == [k |-> "float", v |-> t]
PyBool(b) == [k |-> "bool", v |-> b]
PyStr(s) == [k |-> "str", v |-> s]
PyArray(s) == [k |-> "array", v |-> s]
PyArray0(x) == [k |-> "array0", v |-> x]
Geom(g) == [k |-> "geom", v |-> g]
NpIntc(n) == [k |-> "intc", v |-> n]
PyNone == [k |-> "None"]
Absent == [k |-> "absent"]

(* A parameter's value: the caller's, or the signature's default. *)
Arg(x, default) == IF x.k = "absent" THEN default ELSE x

(***************************************************************************)
(* str.upper() on strings of ASCII letters, character by character.        *)
(***************************************************************************)
LowerLetters ==
    <<"a", "b", "c", "d", "e", "f", "g", "h", "i", "j", "k", "l", "m",
      "n", "o", "p", "q", "r", "s", "t", "u", "v", "w", "x", "y", "z">>

UpperLetters ==
    <<"A", "B", "C", "D", "E", "F", "G", "H", "I", "J", "K", "L", "M",
      "N", "O", "P", "Q", "R", "S", "T", "U", "V", "W", "X", "Y", "Z">>

UpperChar(c) ==
    IF \E i \in DOMAIN LowerLetters : LowerLetters[i] = c
    THEN UpperLetters[CHOOSE i \in DOMAIN LowerLetters : LowerLetters[i] = c]
    ELSE c

(* A faulty variant of StrUpper: only the first character is upper-cased. *)
StrUpper_Capitalize(s) ==
    [i \in DOMAIN s |-> IF i = 1 THEN UpperChar(s[i]) ELSE s[i]]

StrUpper(s) == [i \in DOMAIN s |-> UpperChar(s[i])]

(***************************************************************************)
(* The two IntEnums, as their members' (name, value) pairs.                *)
(***************************************************************************)
(* A faulty variant of BufferCapStyles: FLAT and SQUARE carry each other's value. *)
BufferCapStyles_Swapped ==
    { [name |-> <<"R", "O", "U", "N", "D">>, value |-> 1],
      [name |-> <<"F", "L", "A", "T">>, value |-> 3],
      [name |-> <<"S", "Q", "U", "A", "R", "E">>, value |-> 2] }

BufferCapStyles ==
    { [name |-> <<"R", "O", "U", "N", "D">>, value |-> 1],
      [name |-> <<"F", "L", "A", "T">>, value |-> 2],
      [name |-> <<"S", "Q", "U", "A", "R", "E">>, value |-> 3] }

BufferJoinStyles ==
    { [name |-> <<"R", "O", "U", "N", "D">>, value |-> 1],
      [name |-> <<"M", "I", "T", "R", "E">>, value |-> 2],
      [name |-> <<"B", "E", "V", "E", "L">>, value |-> 3] }

(* A faulty variant of StyleEnum: one table of names serves both. *)
StyleEnum_Shared(param) == BufferCapStyles \cup BufferJoinStyles

(* The enumeration a style parameter is looked up in. *)
StyleEnum(param) ==
    IF param = "cap_style" THEN BufferCapStyles ELSE BufferJoinStyles

(* Enum[key]: the member of that name, or KeyError(key). *)
EnumGetItem(enum, key) ==
    IF \E m \in enum : m.name = key
    THEN [ok |-> TRUE, value |-> (CHOOSE m \in enum : m.name = key).value]
    ELSE [ok |-> FALSE, error |-> [type |-> "KeyError", key |-> key]]

(* if isinstance(x, str): x = Enum[x.upper()].value *)
ResolveStyle(param, x) ==
    IF x.k = "str"
    THEN LET m == EnumGetItem(StyleEnum(param), StrUpper(x.v))
         IN  IF m.ok THEN [ok |-> TRUE, value |-> PyInt(m.value)] ELSE m
    ELSE [ok |-> TRUE, value |-> x]

(***************************************************************************)
(* numpy.isscalar, numpy.intc(x), numpy.bool(x)                            *)
(***************************************************************************)
(* A faulty variant of IsScalar: a one-element or zero-dimensional array passes. *)
IsScalar_ByLength(x) ==
    /\ x.k \in {"int", "bigint", "float", "bool", "str", "intc", "array", "array0"}
    /\ x.k = "array" => Len(x.v) = 1

(* True for Python and numpy scalars; False for every ndarray (also a
   zero-dimensional one), list and None. *)
IsScalar(x) == x.k \in {"int", "bigint", "float", "bool", "str", "intc"}

(* Truncation toward zero of a value given in tenths. *)
TruncTenths(t) == IF t >= 0 THEN t \div 10 ELSE -((-t) \div 10)

(* A faulty variant of Intc: the value is kept in 16 bits. *)
Intc_Short(x, wraps) ==
    LET n == CASE x.k = "int" -> x.v
               [] x.k = "bool" -> IF x.v THEN 1 ELSE 0
               [] x.k = "float" -> TruncTenths(x.v)
               [] OTHER -> 0
    IN  [ok |-> TRUE, value |-> NpIntc((((n % 65536) + 32768) % 65536) - 32768)]

(* numpy.intc(x) of a scalar.  An int outside the C int range raises
   OverflowError or wraps around modulo 2^32, by the NumPy release (wraps). *)
Intc(x, wraps) ==
    CASE x.k = "int" -> [ok |-> TRUE, value |-> NpIntc(x.v)]
      [] x.k = "intc" -> [ok |-> TRUE, value |-> x]
      [] x.k = "bool" -> [ok |-> TRUE, value |-> NpIntc(IF x.v THEN 1 ELSE 0)]
      [] x.k = "float" -> [ok |-> TRUE, value |-> NpIntc(TruncTenths(x.v))]
      [] x.k = "bigint" ->
            IF wraps
            THEN [ok |-> TRUE, value |-> NpIntc(INT_MIN + (x.v - 1))]
            ELSE [ok |-> FALSE, error |-> [type |-> "OverflowError"]]
      [] OTHER -> [ok |-> FALSE, error |-> [type |-> "ValueError"]]

(* numpy.bool is the builtin bool: the truth value of x. *)
NpBool(x) ==
    CASE x.k = "bool" -> x
      [] x.k \in {"int", "float", "intc"} -> PyBool(x.v # 0)
      [] x.k = "str" -> PyBool(Len(x.v) > 0)
      [] OTHER -> PyBool(TRUE)

(***************************************************************************)
(* The ufuncs and the geometry kernel behind them (pygeos/ufuncs, a C      *)
(* extension of the package): every argument broadcasts, the kernel        *)
(* primitive runs once per broadcast element, and the first element the    *)
(* kernel fails on ends the call with the kernel's error.                  *)
(***************************************************************************)
SetMin(S) == CHOOSE x \in S : \A y \in S : x <= y

(* The lengths of the 1-d array arguments. *)
ArrayLens(uargs) ==
    {Len(uargs[j].v) : j \in {i \in DOMAIN uargs : uargs[i].k = "array"}}

(* NumPy broadcasting of scalars and 1-d arrays: lengths must agree, a
   length of 1 stretching to any other. *)
BroadcastOk(uargs) == Cardinality(ArrayLens(uargs) \ {1}) <= 1

(* The broadcast shape: -1 for a scalar (zero-dimensional) result, or the
   length of the result array. *)
BroadcastShape(uargs) ==
    LET lens == ArrayLens(uargs)
    IN  IF lens = {} THEN -1
        ELSE IF lens \ {1} = {} THEN 1
        ELSE CHOOSE n \in lens \ {1} : TRUE

(* Argument a as element i sees it. *)
Elem(a, i) ==
    CASE a.k = "array" -> IF Len(a.v) = 1 THEN a.v[1] ELSE a.v[i]
      [] a.k = "array0" -> a.v
      [] OTHER -> a

ElemArgs(uargs, i) == [j \in DOMAIN uargs |-> Elem(uargs[j], i)]

(* The kernel rejects a malformed geometry in every primitive, and a
   geometry collection in boundary. *)
KernelFails(prim, eargs) ==
    \/ eargs[1].k # "geom"
    \/ eargs[1].v = "INVALID"
    \/ prim = "boundary" /\ eargs[1].v = "COLLECTION"

(* The kernel's answer for one element: an opaque handle, which stands for
   what the primitive computes from exactly these arguments. *)
KernelValue(prim, eargs) == [k |-> "result", prim |-> prim, args |-> eargs]

KernelError(prim, eargs) ==
    [type |-> "KernelError", prim |-> prim, args |-> eargs]

Returned(value) == [status |-> "returned", value |-> value]

Raised(error) == [status |-> "raised", error |-> error]

(* A call that ended in the layer itself, before any ufunc. *)
NoCall(out) == [outcome |-> out, ufuncCalls |-> <<>>, kernelCalls |-> <<>>]

(* One call of a ufunc, ufuncs.prim, on the arguments uargs. *)
UfuncCall(prim, uargs) ==
    LET call == [prim |-> prim, args |-> uargs]
        shape == BroadcastShape(uargs)
        n == IF shape = -1 THEN 1 ELSE shape
        bad == {i \in 1..n : KernelFails(prim, ElemArgs(uargs, i))}
        last == IF bad = {} THEN n ELSE SetMin(bad)
        invoked == [i \in 1..last |-> [prim |-> prim, args |-> ElemArgs(uargs, i)]]
        values == [i \in 1..n |-> KernelValue(prim, ElemArgs(uargs, i))]
    IN  IF ~BroadcastOk(uargs)
        THEN [outcome |-> Raised([type |-> "ValueError", why |-> "broadcast"]),
              ufuncCalls |-> <<call>>, kernelCalls |-> <<>>]
        ELSE IF bad # {}
        THEN [outcome |-> Raised(KernelError(prim, ElemArgs(uargs, last))),
              ufuncCalls |-> <<call>>, kernelCalls |-> invoked]
        ELSE [outcome |-> Returned(IF shape = -1 THEN values[1] ELSE PyArray(values)),
              ufuncCalls |-> <<call>>, kernelCalls |-> invoked]

(***************************************************************************)
(* The public functions.  Each takes the record of its arguments and gives *)
(* the outcome and the calls made.                                         *)
(***************************************************************************)
ScalarMessage(param) == <<param, "only accepts scalar values">>

TypeError(param) == Raised([type |-> "TypeError", msg |-> ScalarMessage(param)])

(* A faulty variant of Boundary: a kernel error is caught and Empty returned. *)
Boundary_Masking(a) ==
    LET r == UfuncCall("boundary", <<a.geometry>>)
    IN  IF r.outcome.status = "raised"
        THEN [r EXCEPT !.outcome = Returned(Geom("EMPTY"))]
        ELSE r

Boundary(a) == UfuncCall("boundary", <<a.geometry>>)

(* A faulty variant of Buffer: the ufunc is called first and the parameters are
   validated afterwards. *)
Buffer_ValidateLate(a, wraps) ==
    LET capIn == Arg(a.cap_style, PyStr(<<"r", "o", "u", "n", "d">>))
        joinIn == Arg(a.join_style, PyStr(<<"r", "o", "u", "n", "d">>))
        quadsegs == Arg(a.quadsegs, PyInt(8))
        mitre_limit == Arg(a.mitre_limit, PyFloat(50))
        single_sided == Arg(a.single_sided, PyBool(FALSE))
        cap == ResolveStyle("cap_style", capIn)
        join == ResolveStyle("join_style", joinIn)
        r == UfuncCall("buffer", <<a.geometry, a.radius, quadsegs, capIn, joinIn,
                                   mitre_limit, single_sided>>)
    IN  IF ~cap.ok THEN [r EXCEPT !.outcome = Raised(cap.error)]
        ELSE IF ~join.ok THEN [r EXCEPT !.outcome = Raised(join.error)]
        ELSE IF ~IsScalar(quadsegs) THEN [r EXCEPT !.outcome = TypeError("quadsegs")]
        ELSE IF ~IsScalar(cap.value) THEN [r EXCEPT !.outcome = TypeError("cap_style")]
        ELSE IF ~IsScalar(join.value) THEN [r EXCEPT !.outcome = TypeError("join_style")]
        ELSE IF ~IsScalar(mitre_limit) THEN [r EXCEPT !.outcome = TypeError("mitre_limit")]
        ELSE IF ~IsScalar(single_sided) THEN [r EXCEPT !.outcome = TypeError("single_sided")]
        ELSE r

(* A faulty variant of Buffer: the scalar checks run before the style names are
   resolved. *)
Buffer_ScalarsFirst(a, wraps) ==
    LET capIn == Arg(a.cap_style, PyStr(<<"r", "o", "u", "n", "d">>))
        joinIn == Arg(a.join_style, PyStr(<<"r", "o", "u", "n", "d">>))
        quadsegs == Arg(a.quadsegs, PyInt(8))
        mitre_limit == Arg(a.mitre_limit, PyFloat(50))
        single_sided == Arg(a.single_sided, PyBool(FALSE))
        cap == ResolveStyle("cap_style", capIn)
        join == ResolveStyle("join_style", joinIn)
    IN  IF ~IsScalar(quadsegs) THEN NoCall(TypeError("quadsegs"))
        ELSE IF ~IsScalar(capIn) THEN NoCall(TypeError("cap_style"))
        ELSE IF ~IsScalar(joinIn) THEN NoCall(TypeError("join_style"))
        ELSE IF ~IsScalar(mitre_limit) THEN NoCall(TypeError("mitre_limit"))
        ELSE IF ~IsScalar(single_sided) THEN NoCall(TypeError("single_sided"))
        ELSE IF ~cap.ok THEN NoCall(Raised(cap.error))
        ELSE IF ~join.ok THEN NoCall(Raised(join.error))
        ELSE LET q == Intc(quadsegs, wraps)
                 c == Intc(cap.value, wraps)
                 j == Intc(join.value, wraps)
             IN  IF ~q.ok THEN NoCall(Raised(q.error))
                 ELSE IF ~c.ok THEN NoCall(Raised(c.error))
                 ELSE IF ~j.ok THEN NoCall(Raised(j.error))
                 ELSE UfuncCall("buffer",
                                <<a.geometry, a.radius, q.value, c.value, j.value,
                                  mitre_limit, NpBool(single_sided)>>)

(* A faulty variant of Buffer: only the first geometry of an array is buffered. *)
Buffer_FirstOnly(a, wraps) ==
    LET cap == ResolveStyle("cap_style", Arg(a.cap_style, PyStr(<<"r", "o", "u", "n", "d">>)))
        join == ResolveStyle("join_style", Arg(a.join_style, PyStr(<<"r", "o", "u", "n", "d">>)))
        quadsegs == Arg(a.quadsegs, PyInt(8))
        mitre_limit == Arg(a.mitre_limit, PyFloat(50))
        single_sided == Arg(a.single_sided, PyBool(FALSE))
        first == IF a.geometry.k = "array" /\ Len(a.geometry.v) > 0
                 THEN a.geometry.v[1] ELSE a.geometry
    IN  IF ~cap.ok THEN NoCall(Raised(cap.error))
        ELSE IF ~join.ok THEN NoCall(Raised(join.error))
        ELSE IF ~IsScalar(quadsegs) THEN NoCall(TypeError("quadsegs"))
        ELSE IF ~IsScalar(cap.value) THEN NoCall(TypeError("cap_style"))
        ELSE IF ~IsScalar(join.value) THEN NoCall(TypeError("join_style"))
        ELSE IF ~IsScalar(mitre_limit) THEN NoCall(TypeError("mitre_limit"))
        ELSE IF ~IsScalar(single_sided) THEN NoCall(TypeError("single_sided"))
        ELSE LET q == Intc(quadsegs, wraps)
                 c == Intc(cap.value, wraps)
                 j == Intc(join.value, wraps)
             IN  IF ~q.ok THEN NoCall(Raised(q.error))
                 ELSE IF ~c.ok THEN NoCall(Raised(c.error))
                 ELSE IF ~j.ok THEN NoCall(Raised(j.error))
                 ELSE UfuncCall("buffer",
                                <<first, a.radius, q.value, c.value, j.value,
                                  mitre_limit, NpBool(single_sided)>>)

(* buffer(geometry, radius, quadsegs=8, cap_style="round",
          join_style="round", mitre_limit=5.0, single_sided=False) *)
Buffer(a, wraps) ==
    LET cap == ResolveStyle("cap_style", Arg(a.cap_style, PyStr(<<"r", "o", "u", "n", "d">>)))
        join == ResolveStyle("join_style", Arg(a.join_style, PyStr(<<"r", "o", "u", "n", "d">>)))
        quadsegs == Arg(a.quadsegs, PyInt(8))
        mitre_limit == Arg(a.mitre_limit, PyFloat(50))
        single_sided == Arg(a.single_sided, PyBool(FALSE))
    IN  IF ~cap.ok THEN NoCall(Raised(cap.error))
        ELSE IF ~join.ok THEN NoCall(Raised(join.error))
        ELSE IF ~IsScalar(quadsegs) THEN NoCall(TypeError("quadsegs"))
        ELSE IF ~IsScalar(cap.value) THEN NoCall(TypeError("cap_style"))
        ELSE IF ~IsScalar(join.value) THEN NoCall(TypeError("join_style"))
        ELSE IF ~IsScalar(mitre_limit) THEN NoCall(TypeError("mitre_limit"))
        ELSE IF ~IsScalar(single_sided) THEN NoCall(TypeError("single_sided"))
        ELSE LET q == Intc(quadsegs, wraps)
                 c == Intc(cap.value, wraps)
                 j == Intc(join.value, wraps)
             IN  IF ~q.ok THEN NoCall(Raised(q.error))
                 ELSE IF ~c.ok THEN NoCall(Raised(c.error))
                 ELSE IF ~j.ok THEN NoCall(Raised(j.error))
                 ELSE UfuncCall("buffer",
                                <<a.geometry, a.radius, q.value, c.value, j.value,
                                  mitre_limit, NpBool(single_sided)>>)

Centroid(a) == UfuncCall("centroid", <<a.geometry>>)

ConvexHull(a) == UfuncCall("convex_hull", <<a.geometry>>)

(* delaunay_triangles(geometry, tolerance=0.0, only_edges=False) *)
DelaunayTriangles(a) ==
    UfuncCall("delaunay_triangles",
              <<a.geometry, Arg(a.tolerance, PyFloat(0)),
                Arg(a.only_edges, PyBool(FALSE))>>)

Envelope(a) == UfuncCall("envelope", <<a.geometry>>)

ExtractUniquePoints(a) == UfuncCall("extract_unique_points", <<a.geometry>>)

PointOnSurface(a) == UfuncCall("point_on_surface", <<a.geometry>>)

(* A faulty variant of Simplify: the flag is handed to one primitive as an argument. *)
Simplify_FlagPassed(a) ==
    UfuncCall("simplify",
              <<a.geometry, a.tolerance, Arg(a.preserve_topology, PyBool(FALSE))>>)

(* simplify(geometries, tolerance, preserve_topology=False) *)
Simplify(a) ==
    IF NpBool(Arg(a.preserve_topology, PyBool(FALSE))).v
    THEN UfuncCall("simplify_preserve_topology", <<a.geometry, a.tolerance>>)
    ELSE UfuncCall("simplify", <<a.geometry, a.tolerance>>)

Snap(a) == UfuncCall("snap", <<a.geometry, a.reference, a.tolerance>>)

(* voronoi_polygons(geometry, envelope=None, tolerance=0.0, only_edges=False) *)
VoronoiPolygons(a) ==
    UfuncCall("voronoi_polygons",
              <<a.geometry, Arg(a.envelope, PyNone), Arg(a.tolerance, PyFloat(0)),
                Arg(a.only_edges, PyBool(FALSE))>>)

(***************************************************************************)
(* The arguments a call is made with.                                      *)
(***************************************************************************)
S_round == <<"r", "o", "u", "n", "d">>

S_flat == <<"f", "l", "a", "t">>

S_square == <<"s", "q", "u", "a", "r", "e">>

S_mitre == <<"m", "i", "t", "r", "e">>

S_bevel == <<"b", "e", "v", "e", "l">>

S_hexagon == <<"h", "e", "x", "a", "g", "o", "n">>

(* Every spelling of s in upper and lower case. *)
CaseVariants(s) ==
    { [i \in DOMAIN s |-> IF b[i] THEN UpperChar(s[i]) ELSE s[i]] :
        b \in [DOMAIN s -> BOOLEAN] }

StyleStrings ==
    UNION {CaseVariants(s) : s \in {S_round, S_flat, S_square, S_mitre, S_bevel}}
        \cup {S_hexagon, StrUpper(S_hexagon), <<>>, <<"r", "o", "u", "n", "d", "s">>,
              <<"r", "o", "u", "n">>, <<" ", "f", "l", "a", "t">>, <<"1">>}

GeomScalars == {Geom("POINT"), Geom("COLLECTION"), Geom("INVALID")}

GeomArrays ==
    {PyArray(s) : s \in UNION {[1..n -> GeomScalars] : n \in 0..MaxLen}}

GeomInputs == GeomScalars \cup GeomArrays

RadiusInputs ==
    {PyInt(2)} \cup {PyArray([i \in 1..n |-> PyInt(i - 2)]) : n \in 1..MaxLen}

UnaryOps ==
    {"boundary", "centroid", "convex_hull", "envelope", "extract_unique_points",
     "point_on_surface"}

(* Calls of every function over scalar and array geometries. *)
InitDispatch ==
    \/ /\ op \in UnaryOps
       /\ args \in [geometry : GeomInputs]
    \/ /\ op = "buffer"
       /\ args \in [geometry : GeomInputs, radius : RadiusInputs,
                    quadsegs : {Absent, PyInt(2)},
                    cap_style : {Absent, PyStr(S_flat), PyInt(2)},
                    join_style : {Absent, PyStr(S_mitre)},
                    mitre_limit : {Absent},
                    single_sided : {Absent, PyBool(TRUE)}]
    \/ /\ op = "delaunay_triangles"
       /\ args \in [geometry : GeomInputs, tolerance : {Absent, PyFloat(5)},
                    only_edges : {Absent, PyBool(TRUE)}]
    \/ /\ op = "simplify"
       /\ args \in [geometry : GeomInputs, tolerance : {PyFloat(5), PyInt(1)},
                    preserve_topology : {Absent, PyBool(FALSE), PyBool(TRUE)}]
    \/ /\ op = "snap"
       /\ args \in [geometry : GeomInputs, reference : {Geom("POINT"), Geom("COLLECTION")},
                    tolerance : {PyFloat(5), PyInt(1)}]
    \/ /\ op = "voronoi_polygons"
       /\ args \in [geometry : GeomInputs, envelope : {Absent, Geom("POINT")},
                    tolerance : {Absent, PyFloat(5)},
                    only_edges : {Absent, PyBool(TRUE)}]

(* Calls of buffer with scalars, arrays and style names mixed over the five
   scalar-only parameters. *)
InitBufferParams ==
    /\ op = "buffer"
    /\ args \in [geometry : GeomInputs, radius : {PyInt(2)},
                 quadsegs : {Absent, PyInt(INT_MAX), PyBig(1), PyFloat(25),
                             PyArray(<<PyInt(8)>>), PyArray(<<>>), PyArray0(PyInt(8))},
                 cap_style : {Absent, PyStr(StrUpper(S_square)), PyStr(S_mitre),
                              PyStr(S_hexagon), PyInt(2),
                              PyArray(<<PyStr(S_round)>>),
                              PyArray(<<PyInt(1), PyInt(2)>>)},
                 join_style : {Absent, PyStr(StrUpper(S_mitre)), PyStr(S_flat),
                               PyInt(3), PyArray(<<PyStr(S_bevel)>>)},
                 mitre_limit : {Absent, PyArray(<<PyFloat(50)>>)},
                 single_sided : {Absent, PyBool(TRUE), PyArray(<<PyBool(TRUE)>>)}]

(* Calls of buffer with one style given by every spelling of every name. *)
InitBufferStyles ==
    /\ op = "buffer"
    /\ \/ args \in [geometry : {Geom("POINT")}, radius : {PyInt(2)},
                    quadsegs : {Absent},
                    cap_style : {PyStr(s) : s \in StyleStrings},
                    join_style : {Absent, PyInt(2)},
                    mitre_limit : {Absent}, single_sided : {Absent}]
       \/ args \in [geometry : {Geom("POINT")}, radius : {PyInt(2)},
                    quadsegs : {Absent},
                    cap_style : {Absent, PyInt(3)},
                    join_style : {PyStr(s) : s \in StyleStrings},
                    mitre_limit : {Absent}, single_sided : {Absent}]

(* Calls of buffer with scalars of every numeric kind. *)
InitBufferCoerce ==
    /\ op = "buffer"
    /\ args \in [geometry : {Geom("POINT")}, radius : {PyInt(2)},
                 quadsegs : {Absent, PyInt(INT_MIN), PyInt(-1), PyInt(0), PyInt(40000),
                             PyInt(INT_MAX), PyBig(1), PyBig(2), PyFloat(25),
                             PyFloat(-25), PyFloat(80), PyBool(TRUE), PyBool(FALSE)},
                 cap_style : {Absent, PyInt(0), PyInt(1), PyInt(2), PyInt(3),
                              PyInt(4), PyFloat(27)},
                 join_style : {Absent, PyInt(1), PyInt(2), PyInt(3), PyBig(1)},
                 mitre_limit : {Absent, PyInt(1), PyFloat(10)},
                 single_sided : {Absent, PyBool(TRUE), PyBool(FALSE), PyInt(0),
                                 PyInt(1), PyFloat(5)}]

Init ==
    /\ pc = "call"
    /\ outcome = [status |-> "pending"]
    /\ ufuncCalls = <<>>
    /\ kernelCalls = <<>>
    /\ \/ InitDispatch
       \/ InitBufferParams
       \/ InitBufferStyles
       \/ InitBufferCoerce

(***************************************************************************)
(* One action per public function: the whole call.                         *)
(***************************************************************************)
Finish(r) ==
    /\ pc' = "done"
    /\ outcome' = r.outcome
    /\ ufuncCalls' = r.ufuncCalls
    /\ kernelCalls' = r.kernelCalls
    /\ UNCHANGED <<op, args>>

CallBoundary == pc = "call" /\ op = "boundary" /\ Finish(Boundary(args))

CallBuffer ==
    /\ pc = "call"
    /\ op = "buffer"
    /\ \E wraps \in BOOLEAN : Finish(Buffer(args, wraps))

CallCentroid == pc = "call" /\ op = "centroid" /\ Finish(Centroid(args))

CallConvexHull == pc = "call" /\ op = "convex_hull" /\ Finish(ConvexHull(args))

CallDelaunayTriangles ==
    pc = "call" /\ op = "delaunay_triangles" /\ Finish(DelaunayTriangles(args))

CallEnvelope == pc = "call" /\ op = "envelope" /\ Finish(Envelope(args))

CallExtractUniquePoints ==
    pc = "call" /\ op = "extract_unique_points" /\ Finish(ExtractUniquePoints(args))

CallPointOnSurface ==
    pc = "call" /\ op = "point_on_surface" /\ Finish(PointOnSurface(args))

CallSimplify == pc = "call" /\ op = "simplify" /\ Finish(Simplify(args))

CallSnap == pc = "call" /\ op = "snap" /\ Finish(Snap(args))

CallVoronoiPolygons ==
    pc = "call" /\ op = "voronoi_polygons" /\ Finish(VoronoiPolygons(args))

Next ==
    \/ CallBoundary
    \/ CallBuffer
    \/ CallCentroid
    \/ CallConvexHull
    \/ CallDelaunayTriangles
    \/ CallEnvelope
    \/ CallExtractUniquePoints
    \/ CallPointOnSurface
    \/ CallSimplify
    \/ CallSnap
    \/ CallVoronoiPolygons

Spec == Init /\ [][Next]_vars

(***************************************************************************)
(* Vocabulary of the properties below.                                     *)
(***************************************************************************)
Done(o) == pc = "done" /\ op = o

RaisedType(t) == outcome.status = "raised" /\ outcome.error.type = t

ScalarOnly == {"quadsegs", "cap_style", "join_style", "mitre_limit", "single_sided"}

(* The value the call gives a buffer parameter, the default when left out. *)
Given(p) ==
    CASE p = "quadsegs" -> Arg(args.quadsegs, PyInt(8))
      [] p = "cap_style" -> Arg(args.cap_style, PyStr(S_round))
      [] p = "join_style" -> Arg(args.join_style, PyStr(S_round))
      [] p = "mitre_limit" -> Arg(args.mitre_limit, PyFloat(50))
      [] p = "single_sided" -> Arg(args.single_sided, PyBool(FALSE))

IsArrayValue(x) == x.k \in {"array", "array0"}

GivenArrays == {p \in ScalarOnly : IsArrayValue(Given(p))}

LowerChar(c) ==
    IF \E i \in DOMAIN UpperLetters : UpperLetters[i] = c
    THEN LowerLetters[CHOOSE i \in DOMAIN UpperLetters : UpperLetters[i] = c]
    ELSE c

(* The case-folded name. *)
Fold(s) == [i \in DOMAIN s |-> LowerChar(s[i])]

(* The canonical codes of the style names, by case-folded name. *)
StyleCodes(p) ==
    IF p = "cap_style"
    THEN {<<S_round, 1>>, <<S_flat, 2>>, <<S_square, 3>>}
    ELSE {<<S_round, 1>>, <<S_mitre, 2>>, <<S_bevel, 3>>}

Recognized(p, x) == x.k = "str" /\ \E e \in StyleCodes(p) : e[1] = Fold(x.v)

CodeOf(p, x) == (CHOOSE e \in StyleCodes(p) : e[1] = Fold(x.v))[2]

UnknownName(p) == Given(p).k = "str" /\ ~Recognized(p, Given(p))

AnyUnknownName == UnknownName("cap_style") \/ UnknownName("join_style")

(***************************************************************************)
(* C1 as stated: a buffer call with an array for any of the five           *)
(* scalar-only parameters ends in a TypeError whose message names a        *)
(* parameter that is an array, and a call with none ends in no TypeError.  *)
(***************************************************************************)
C1_ArrayAlwaysTypeError ==
    Done("buffer") =>
        /\ GivenArrays # {} =>
              /\ RaisedType("TypeError")
              /\ \E p \in GivenArrays : outcome.error.msg = <<p, "only accepts scalar values">>
        /\ GivenArrays = {} => ~RaisedType("TypeError")

(***************************************************************************)
(* C1 amended: the same, for calls whose cap_style and join_style are not  *)
(* unrecognized names; with an unrecognized name the call ends in the      *)
(* KeyError of the name instead, whatever arrays it was given.             *)
(***************************************************************************)
C1_ArrayTypeErrorUnlessUnknownName ==
    Done("buffer") =>
        /\ (GivenArrays # {} /\ ~AnyUnknownName) =>
              /\ RaisedType("TypeError")
              /\ \E p \in GivenArrays : outcome.error.msg = <<p, "only accepts scalar values">>
        /\ (GivenArrays # {} /\ AnyUnknownName) => RaisedType("KeyError")
        /\ GivenArrays = {} => ~RaisedType("TypeError")

(* A one-element array of a valid style name is refused as an array. *)
C1_Witness ==
    /\ Done("buffer")
    /\ Given("cap_style") = PyArray(<<PyStr(S_round)>>)
    /\ GivenArrays = {"cap_style"}
    /\ ~AnyUnknownName
    /\ RaisedType("TypeError")
    /\ outcome.error.msg = <<"cap_style", "only accepts scalar values">>

(***************************************************************************)
(* C2: a buffer call whose cap_style is a string that is not, in any case, *)
(* ROUND, FLAT or SQUARE, or whose join_style is a string that is not      *)
(* ROUND, MITRE or BEVEL, ends in a KeyError carrying that name; a name of *)
(* the other enumeration is such a string.                                 *)
(***************************************************************************)
C2_UnknownNameKeyError ==
    Done("buffer") =>
        /\ AnyUnknownName =>
              /\ RaisedType("KeyError")
              /\ \E p \in {"cap_style", "join_style"} :
                    UnknownName(p) /\ Fold(outcome.error.key) = Fold(Given(p).v)
        /\ UnknownName("cap_style") =>
              /\ RaisedType("KeyError")
              /\ Fold(outcome.error.key) = Fold(Given("cap_style").v)

(* cap_style="mitre", a join-style name, is refused. *)
C2_Witness ==
    /\ Done("buffer")
    /\ Given("cap_style") = PyStr(S_mitre)
    /\ RaisedType("KeyError")
    /\ outcome.error.key = <<"M", "I", "T", "R", "E">>

(* join_style="flat", a cap-style name, is refused. *)
C2_WitnessJoin ==
    /\ Done("buffer")
    /\ ~UnknownName("cap_style")
    /\ Given("join_style") = PyStr(S_flat)
    /\ RaisedType("KeyError")

(***************************************************************************)
(* C3: a buffer call that gives a style by name ends exactly as the call   *)
(* that gives the style's canonical integer code and the same other        *)
(* arguments: the same ufunc call with the same arguments, the same        *)
(* kernel invocations and the same outcome.                                *)
(***************************************************************************)
Canonical(p, x) == IF Recognized(p, x) THEN PyInt(CodeOf(p, x)) ELSE x

CanonicalArgs ==
    [args EXCEPT !.cap_style = Canonical("cap_style", Given("cap_style")),
                 !.join_style = Canonical("join_style", Given("join_style"))]

C3_EnumEquivalence ==
    (Done("buffer") /\ (Recognized("cap_style", Given("cap_style"))
                           \/ Recognized("join_style", Given("join_style")))) =>
        \E wraps \in BOOLEAN :
            LET r == Buffer(CanonicalArgs, wraps)
            IN  /\ outcome = r.outcome
                /\ ufuncCalls = r.ufuncCalls
                /\ kernelCalls = r.kernelCalls

(* cap_style="flat" reaches the kernel as the code 2, as cap_style=2 does. *)
C3_Witness ==
    /\ Done("buffer")
    /\ Given("cap_style") = PyStr(S_flat)
    /\ CanonicalArgs.cap_style = PyInt(2)
    /\ outcome.status = "returned"
    /\ Len(ufuncCalls) = 1
    /\ ufuncCalls[1].args[4] = NpIntc(2)

(***************************************************************************)
(* C4: every upper/lower-case spelling of a recognized cap-style or        *)
(* join-style name is accepted and reaches the ufunc as the one code of    *)
(* the case-folded name.                                                   *)
(***************************************************************************)
StyleIndex(p) == IF p = "cap_style" THEN 4 ELSE 5

(* Some integer parameter is given a Python int outside the C int range. *)
AnyOutOfRange ==
    \E p \in {"quadsegs", "cap_style", "join_style"} : Given(p).k = "bigint"

C4_CaseInsensitive ==
    Done("buffer") =>
        \A p \in {"cap_style", "join_style"} :
            Recognized(p, Given(p)) =>
                /\ ~AnyUnknownName => ~RaisedType("KeyError")
                /\ (GivenArrays = {} /\ ~AnyUnknownName /\ ~AnyOutOfRange) =>
                      Len(ufuncCalls) = 1
                /\ ufuncCalls # <<>> =>
                      ufuncCalls[1].args[StyleIndex(p)] = NpIntc(CodeOf(p, Given(p)))

(* A mixed-case spelling, "sQuArE", resolves to SQUARE's code 3. *)
C4_Witness ==
    /\ Done("buffer")
    /\ Given("cap_style") = PyStr(<<"s", "Q", "u", "A", "r", "E">>)
    /\ Len(ufuncCalls) = 1
    /\ ufuncCalls[1].args[4] = NpIntc(3)

(***************************************************************************)
(* C5: a call of any function on a geometry array A with scalar            *)
(* parameters that returns, returns an array as long as A whose i-th       *)
(* element is what the same call on A[i] alone returns, computed by the    *)
(* kernel from A[i] and the call's scalar parameters only.                 *)
(***************************************************************************)
Apply(o, a, wraps) ==
    CASE o = "boundary" -> Boundary(a)
      [] o = "buffer" -> Buffer(a, wraps)
      [] o = "centroid" -> Centroid(a)
      [] o = "convex_hull" -> ConvexHull(a)
      [] o = "delaunay_triangles" -> DelaunayTriangles(a)
      [] o = "envelope" -> Envelope(a)
      [] o = "extract_unique_points" -> ExtractUniquePoints(a)
      [] o = "point_on_surface" -> PointOnSurface(a)
      [] o = "simplify" -> Simplify(a)
      [] o = "snap" -> Snap(a)
      [] o = "voronoi_polygons" -> VoronoiPolygons(a)

(* The call is on a geometry array, every other argument a scalar. *)
ArrayOfGeometries ==
    /\ args.geometry.k = "array"
    /\ op = "buffer" => ~IsArrayValue(args.radius)

C5_ElementIndependence ==
    (pc = "done" /\ ArrayOfGeometries /\ outcome.status = "returned") =>
        LET A == args.geometry.v
            u == ufuncCalls[1]
        IN  /\ outcome.value.k = "array"
            /\ Len(outcome.value.v) = Len(A)
            /\ Len(kernelCalls) = Len(A)
            /\ \A i \in 1..Len(A) :
                  /\ outcome.value.v[i] = KernelValue(u.prim, <<A[i]>> \o Tail(u.args))
                  /\ kernelCalls[i].args = <<A[i]>> \o Tail(u.args)
                  /\ \E wraps \in BOOLEAN :
                        Apply(op, [args EXCEPT !.geometry = A[i]], wraps).outcome
                            = Returned(outcome.value.v[i])

(* A two-element array is buffered element by element. *)
C5_Witness ==
    /\ pc = "done"
    /\ op = "buffer"
    /\ args.geometry = PyArray(<<Geom("POINT"), Geom("COLLECTION")>>)
    /\ ~IsArrayValue(args.radius)
    /\ outcome.status = "returned"
    /\ Len(outcome.value.v) = 2
    /\ outcome.value.v[1] # outcome.value.v[2]

(***************************************************************************)
(* C6: a simplify call issues exactly one ufunc call, of the               *)
(* topology-preserving primitive when preserve_topology is true and of the *)
(* plain primitive when it is false or left out, with the geometries and   *)
(* the tolerance as given and without the flag; no other primitive runs.   *)
(***************************************************************************)
C6_SimplifyBranch ==
    Done("simplify") =>
        LET flag == Arg(args.preserve_topology, PyBool(FALSE)).v
            prim == IF flag THEN "simplify_preserve_topology" ELSE "simplify"
        IN  /\ Len(ufuncCalls) = 1
            /\ ufuncCalls[1].prim = prim
            /\ ufuncCalls[1].args = <<args.geometry, args.tolerance>>
            /\ \A i \in DOMAIN kernelCalls : kernelCalls[i].prim = prim

(* With the flag set the topology-preserving primitive runs on each element. *)
C6_Witness ==
    /\ Done("simplify")
    /\ args.preserve_topology = PyBool(TRUE)
    /\ Len(ufuncCalls) = 1
    /\ ufuncCalls[1].prim = "simplify_preserve_topology"
    /\ Len(kernelCalls) = 2

(* With the flag left out the plain primitive runs. *)
C6_WitnessDefault ==
    /\ Done("simplify")
    /\ args.preserve_topology = Absent
    /\ ufuncCalls[1].prim = "simplify"

(***************************************************************************)
(* C7: a buffer call that ends in the TypeError of a non-scalar parameter  *)
(* or the KeyError of an unrecognized style name has issued no ufunc call  *)
(* and invoked the kernel for no element.                                  *)
(***************************************************************************)
C7_ValidationBeforeKernel ==
    (Done("buffer") /\ (RaisedType("TypeError") \/ RaisedType("KeyError"))) =>
        /\ ufuncCalls = <<>>
        /\ kernelCalls = <<>>

(* A call on two valid geometries is refused before either is buffered. *)
C7_Witness ==
    /\ Done("buffer")
    /\ args.geometry = PyArray(<<Geom("POINT"), Geom("POINT")>>)
    /\ RaisedType("TypeError")
    /\ kernelCalls = <<>>

(***************************************************************************)
(* C8: a call whose ufunc call has an element the kernel fails on ends in  *)
(* that kernel error, unchanged, and returns nothing; a call that returns, *)
(* returns a kernel result for every element of the broadcast shape.       *)
(***************************************************************************)
C8_AtomicFailure ==
    (pc = "done" /\ ufuncCalls # <<>>) =>
        LET u == ufuncCalls[1]
            shape == BroadcastShape(u.args)
            n == IF shape = -1 THEN 1 ELSE shape
            failing == {i \in 1..n : KernelFails(u.prim, ElemArgs(u.args, i))}
        IN  /\ outcome.status \in {"returned", "raised"}
            /\ outcome.status = "raised" => DOMAIN outcome = {"status", "error"}
            /\ (BroadcastOk(u.args) /\ failing # {}) =>
                  /\ outcome.status = "raised"
                  /\ \E i \in failing :
                        outcome.error = KernelError(u.prim, ElemArgs(u.args, i))
            /\ outcome.status = "returned" =>
                  /\ BroadcastOk(u.args)
                  /\ failing = {}
                  /\ IF shape = -1
                     THEN outcome.value = KernelValue(u.prim, ElemArgs(u.args, 1))
                     ELSE /\ outcome.value.k = "array"
                          /\ Len(outcome.value.v) = n
                          /\ \A i \in 1..n :
                                outcome.value.v[i] = KernelValue(u.prim, ElemArgs(u.args, i))

(* boundary of an array whose second element is a collection fails whole. *)
C8_Witness ==
    /\ Done("boundary")
    /\ args.geometry = PyArray(<<Geom("POINT"), Geom("COLLECTION")>>)
    /\ outcome = Raised(KernelError("boundary", <<Geom("COLLECTION")>>))

(* buffer of an array with a malformed element fails whole. *)
C8_WitnessBuffer ==
    /\ Done("buffer")
    /\ args.geometry = PyArray(<<Geom("POINT"), Geom("INVALID")>>)
    /\ RaisedType("KernelError")

(***************************************************************************)
(* C9: in the ufunc call of buffer, quadsegs, cap_style and join_style are *)
(* numpy.intc values, single_sided is a bool with the truth value of what  *)
(* was given, and mitre_limit is what was given; a quadsegs or style       *)
(* whose value is an integer of the C int range arrives with that value.   *)
(***************************************************************************)
IsIntegral(x) ==
    \/ x.k \in {"int", "bool"}
    \/ x.k = "float" /\ x.v % 10 = 0

IntegerOf(x) ==
    CASE x.k = "int" -> x.v
      [] x.k = "bool" -> IF x.v THEN 1 ELSE 0
      [] x.k = "float" -> IF x.v >= 0 THEN x.v \div 10 ELSE -((-x.v) \div 10)

TruthOf(x) ==
    CASE x.k = "bool" -> x.v
      [] x.k \in {"int", "float"} -> x.v # 0
      [] OTHER -> TRUE

CheckOrder == <<"quadsegs", "cap_style", "join_style", "mitre_limit", "single_sided">>

FirstArray == CheckOrder[SetMin({i \in 1..5 : CheckOrder[i] \in GivenArrays})]

C10_ErrorPrecedence ==
    Done("buffer") =>
        IF UnknownName("cap_style")
        THEN RaisedType("KeyError") /\ Fold(outcome.error.key) = Fold(Given("cap_style").v)
        ELSE IF UnknownName("join_style")
        THEN RaisedType("KeyError") /\ Fold(outcome.error.key) = Fold(Given("join_style").v)
        ELSE IF GivenArrays # {}
        THEN RaisedType("TypeError")
                /\ outcome.error.msg = <<FirstArray, "only accepts scalar values">>
        ELSE ~RaisedType("KeyError") /\ ~RaisedType("TypeError")

(* An unrecognized name and an array together: the name is reported. *)
C10_Witness ==
    /\ Done("buffer")
    /\ Given("cap_style") = PyStr(S_hexagon)
    /\ "quadsegs" \in GivenArrays
    /\ RaisedType("KeyError")
    /\ outcome.error.key = StrUpper(S_hexagon)

(* Several arrays: the earliest in the order is named. *)
C10_WitnessArrays ==
    /\ Done("buffer")
    /\ GivenArrays = {"join_style", "mitre_limit", "single_sided"}
    /\ RaisedType("TypeError")
    /\ outcome.error.msg = <<"join_style", "only accepts scalar values">>
====
